---- MODULE Spec2Model ----
(***************************************************************************)
(* Model of DefaultWalletModule, the wallet facade of wallet-module, in    *)
(* its two revisions:                                                      *)
(*   "add"  - src/src/wallet-module.ts (addOn*Listeners, a list of         *)
(*            listeners per event)                                         *)
(*   "bind" - src/unnamed/part_001 (bindOn*Listeners, one listener per     *)
(*            event, _initialized guard)                                   *)
(* The module object, the event subscriptions held by the injected         *)
(* providers and the promises in flight are the state; every public method *)
(* and every provider callback is one action.                              *)
(***************************************************************************)
EXTENDS Integers, Sequences, FiniteSets, TLC

\* ---------------------------------------------------------------- bounds
MaxRegs == 2        \* listener registrations held by the registry, all events together
MaxSubs == 2        \* handlers subscribed to one provider event, all providers together
MaxPending == 1     \* provider requests in flight

\* ------------------------------------------------------------- constants
Variants == {"add", "bind"}

\* enum WalletKind
MetaMask == 1
Binance == 2
Coinbase == 3
Unknown == 99
WalletKind == {MetaMask, Binance, Coinbase, Unknown}

\* enum WalletModuleEvent
WalletModuleEvent == {"WalletInstalled", "BalanceChanged", "ChainConnected", "ChainChanged",
                      "AccountChanged", "AccountConnectCanceled", "Disconnected"}

\* the callbacks the application can register; every registration passes a
\* callback of its own (the arrow functions of the README), numbered from 1
Listeners == 1..(MaxRegs + 1)

\* a field that was never assigned (private _address!: string)
Undefined == <<"undefined">>

\* no wrapper object (undefined / null)
NoProvider == -1

\* the injected provider objects; the three flags _determineWalletKind reads
\* are the three low bits of the object's number: 1 isMetaMask,
\* 2 isCoinbaseWallet, 4 bnbSign
RawProviders == {0, 3, 4, 5, 6}
isMetaMask(p) == p % 2 = 1
isCoinbaseWallet(p) == (p \div 2) % 2 = 1
bnbSign(p) == (p \div 4) % 2 = 1

\* account addresses, strings as sequences of characters
Acct1 == <<"0", "x", "a", "1", "b", "2", "c", "3", "d", "4", "e", "5">>
Acct2 == <<"0", "x", "f", "6", "0", "7", "1", "8", "2", "9", "3", "a">>
Accounts == {Acct1, Acct2}
\* what eth_requestAccounts answers and what accountsChanged carries
AccountLists == {<<>>, <<Acct1>>, <<Acct2, Acct1>>}

\* chain ids as the provider reports them in chainChanged
ChainIdHex == {<<"0", "x", "1">>, <<"0", "x", "8", "9">>}

\* the error of the getters and of getBalance
ErrNotConnected == "Wallet not connected."

\* ------------------------------------------------------------------ state
VARIABLES
    variant,              \* which revision of the class this object is
    _initialized,         \* bind revision only: private _initialized
    _address,
    _web3Provider,
    _walletInstalled,
    _walletConnected,
    _listeners,           \* event -> listeners, in registration order
    chainChangedSubs,     \* provider object -> handlers given to on('chainChanged')
    accountsChangedSubs,  \* provider object -> handlers given to on('accountsChanged')
    pending,              \* provider requests awaiting their answer
    calls,                \* listener invocations made by the last step
    reqs,                 \* provider requests sent by the last step
    last                  \* the last step: operation, arguments, outcome

vars == <<variant, _initialized, _address, _web3Provider, _walletInstalled, _walletConnected,
          _listeners, chainChangedSubs, accountsChangedSubs, pending, calls, reqs, last>>

module == <<_initialized, _address, _web3Provider, _walletInstalled, _walletConnected>>
subs == <<chainChangedSubs, accountsChangedSubs>>

\* ---------------------------------------------------------------- helpers
\* JavaScript truthiness of a string-valued field
Truthy(s) == s # Undefined /\ Len(s) > 0

\* accounts[0]
First(list) == IF Len(list) > 0 THEN list[1] ELSE Undefined

Remove(seq, i) == [j \in 1..(Len(seq) - 1) |-> IF j < i THEN seq[j] ELSE seq[j + 1]]

RECURSIVE SumLen(_, _)
SumLen(f, S) == IF S = {} THEN 0
                ELSE LET x == CHOOSE y \in S : TRUE IN Len(f[x]) + SumLen(f, S \ {x})

TotalRegs(reg) == SumLen(reg, WalletModuleEvent)
TotalSubs(s) == SumLen(s, RawProviders)

\* a Web3Provider wrapper around raw provider p; NoWeb3Provider is undefined
Web3Provider(p) == [provider |-> p, _isProvider |-> TRUE]
NoWeb3Provider == [provider |-> NoProvider, _isProvider |-> FALSE]

Call(event, listener, param) == [event |-> event, listener |-> listener, param |-> param]
Void == [void |-> TRUE]

\* --------------------------------------------------------- pure functions
\* value of one hexadecimal digit, -1 for any other character
HexDigit(c) ==
    CASE c = "0" -> 0 [] c = "1" -> 1 [] c = "2" -> 2 [] c = "3" -> 3
      [] c = "4" -> 4 [] c = "5" -> 5 [] c = "6" -> 6 [] c = "7" -> 7
      [] c = "8" -> 8 [] c = "9" -> 9 [] c = "a" -> 10 [] c = "b" -> 11
      [] c = "c" -> 12 [] c = "d" -> 13 [] c = "e" -> 14 [] c = "f" -> 15
      [] OTHER -> -1

NaN == -1

\* digits of s from position i on, up to the first character that is no digit
RECURSIVE ParseDigits(_, _, _, _)
ParseDigits(s, i, acc, seen) ==
    IF i > Len(s) \/ HexDigit(s[i]) < 0
    THEN IF seen THEN acc ELSE NaN
    ELSE ParseDigits(s, i + 1, acc * 16 + HexDigit(s[i]), TRUE)

\* parseInt(s, 16): an optional 0x prefix, then the hexadecimal digits
parseInt16(s) ==
    IF Len(s) >= 2 /\ s[1] = "0" /\ s[2] \in {"x", "X"}
    THEN ParseDigits(s, 3, 0, FALSE)
    ELSE ParseDigits(s, 1, 0, FALSE)

Max(a, b) == IF a > b THEN a ELSE b
Min(a, b) == IF a < b THEN a ELSE b

\* String.prototype.substring(from, to), positions counted from 0
substring(s, from, to) ==
    LET a == Min(Max(from, 0), Len(s))
        b == Min(Max(to, 0), Len(s))
    IN SubSeq(s, Min(a, b) + 1, Max(a, b))

\* get address(): the value, or the error thrown
address ==
    IF Truthy(_address)
    THEN [threw |-> FALSE, value |-> _address]
    ELSE [threw |-> TRUE, error |-> ErrNotConnected]

\* get shortenAddress()
shortenAddress ==
    IF Truthy(_address)
    THEN [threw |-> FALSE,
          value |-> substring(_address, 0, 4 + 1) \o <<".", ".", ".">>
                    \o substring(_address, Len(_address) - 4, Len(_address))]
    ELSE [threw |-> TRUE, error |-> ErrNotConnected]

\* get connected(), get installed(), get provider()
connected == _walletConnected
installed == _walletInstalled
provider == _web3Provider

\* _determineWalletKind with the bnbSign test ahead of the isCoinbaseWallet test
DetermineWalletKindBinanceFirst(web3Provider) ==
    IF isMetaMask(web3Provider.provider) THEN MetaMask
    ELSE IF bnbSign(web3Provider.provider) THEN Binance
    ELSE IF isCoinbaseWallet(web3Provider.provider) THEN Coinbase
    ELSE Unknown

\* _determineWalletKind(provider): reads the flags of provider.provider
_determineWalletKind(web3Provider) ==
    IF isMetaMask(web3Provider.provider) THEN MetaMask
    ELSE IF isCoinbaseWallet(web3Provider.provider) THEN Coinbase
    ELSE IF bnbSign(web3Provider.provider) THEN Binance
    ELSE Unknown

\* _emitListener calling only the listener registered last
EmitListenerLastOnly(event, param) ==
    IF _listeners[event] = <<>> THEN <<>>
    ELSE <<Call(event, _listeners[event][Len(_listeners[event])], param)>>

\* _emitListener(event, param): the invocations it makes, in order
_emitListener(event, param) ==
    [i \in 1..Len(_listeners[event]) |-> Call(event, _listeners[event][i], param)]

\* the handler of the bind revision, which emits through the registry when
\* the provider event arrives; the add revision subscribes one handler per
\* listener and the handler is the listener it captured
EmitHandler == 0

\* what one subscribed handler does with a chainChanged event
ChainChangedHandler(h, chainId) ==
    IF h = EmitHandler
    THEN _emitListener("ChainChanged", [chainId |-> parseInt16(chainId)])
    ELSE <<Call("ChainChanged", h, [chainId |-> parseInt16(chainId)])>>

\* what one subscribed handler does with an accountsChanged event while connected
AccountsChangedHandler(h, accountArray) ==
    IF h = EmitHandler
    THEN _emitListener("AccountChanged", [account |-> First(accountArray)])
    ELSE <<Call("AccountChanged", h, [account |-> First(accountArray)])>>

\* the invocations the chainChanged handlers of a provider make, in
\* subscription order
RECURSIVE DispatchChainChanged(_, _)
DispatchChainChanged(handlers, chainId) ==
    IF handlers = <<>> THEN <<>>
    ELSE ChainChangedHandler(Head(handlers), chainId)
             \o DispatchChainChanged(Tail(handlers), chainId)

\* the invocations the accountsChanged handlers of a provider make while
\* connected, in subscription order
RECURSIVE DispatchAccountsChanged(_, _)
DispatchAccountsChanged(handlers, accountArray) ==
    IF handlers = <<>> THEN <<>>
    ELSE AccountsChangedHandler(Head(handlers), accountArray)
             \o DispatchAccountsChanged(Tail(handlers), accountArray)

\* ------------------------------------------------------------ environment
\* window.ethereum: the injected object and, when several wallets are
\* installed, its providers list (an empty list is still a list)
NoEthereum == [self |-> NoProvider, hasProviders |-> FALSE, providers |-> <<>>]
Ethereum(p) == [self |-> p, hasProviders |-> FALSE, providers |-> <<>>]
EthereumMulti(p, list) == [self |-> p, hasProviders |-> TRUE, providers |-> list]
Window(e, b, c) == [ethereum |-> e, BinanceChain |-> b, coinbaseWalletExtension |-> c]

Windows == {
    Window(NoEthereum, NoProvider, NoProvider),
    Window(Ethereum(3), NoProvider, NoProvider),
    Window(Ethereum(6), 4, 6),
    Window(EthereumMulti(6, <<6, 3, 5>>), NoProvider, 6),
    Window(EthereumMulti(6, <<4, 6>>), 4, 6),
    Window(EthereumMulti(3, <<>>), NoProvider, NoProvider) }

\* what the caller may hand to initializeWithWeb3Provider
Web3Providers ==
    {NoWeb3Provider, [provider |-> 0, _isProvider |-> FALSE]}
        \cup {Web3Provider(p) : p \in RawProviders}

\* what getNetwork resolves to
Networks == {[chainId |-> 1, name |-> "homestead"], [chainId |-> 137, name |-> "matic"]}

\* --------------------------------------------------------------- initial
Init ==
    /\ variant \in Variants
    /\ _initialized = FALSE
    /\ _address = Undefined
    /\ _web3Provider = NoWeb3Provider
    /\ _walletInstalled = FALSE
    /\ _walletConnected = FALSE
    /\ _listeners = [e \in WalletModuleEvent |-> <<>>]
    /\ chainChangedSubs = [p \in RawProviders |-> <<>>]
    /\ accountsChangedSubs = [p \in RawProviders |-> <<>>]
    /\ pending = <<>>
    /\ calls = <<>>
    /\ reqs = <<>>
    /\ last = [op |-> "constructor", outcome |-> "returned"]

\* ---------------------------------------------------------- registration
\* the callbacks held by the registry
Registered == UNION {{_listeners[e][i] : i \in 1..Len(_listeners[e])} : e \in WalletModuleEvent}

\* the callback the application registers next
NewListener == CHOOSE l \in Listeners \ Registered : \A m \in Listeners \ Registered : l <= m

\* _addEventListners calling the new listener at once
AddListenerInvokes(event, listener) ==
    /\ variant = "add"
    /\ listener = NewListener
    /\ TotalRegs(_listeners) < MaxRegs
    /\ _listeners' = [_listeners EXCEPT ![event] = Append(@, listener)]
    /\ calls' = <<Call(event, listener, Void)>>
    /\ reqs' = <<>>
    /\ last' = [op |-> "addListener", outcome |-> "returned", event |-> event,
                value |-> "this"]
    /\ UNCHANGED <<variant, module, subs, pending>>

\* _addEventListners(event, listener), through any addOn*Listeners method
AddListener(event, listener) ==
    /\ variant = "add"
    /\ listener = NewListener
    /\ TotalRegs(_listeners) < MaxRegs
    /\ _listeners' = [_listeners EXCEPT ![event] = Append(@, listener)]
    /\ calls' = <<>>
    /\ reqs' = <<>>
    /\ last' = [op |-> "addListener", outcome |-> "returned", event |-> event,
                value |-> "this"]
    /\ UNCHANGED <<variant, module, subs, pending>>

\* _bindEventListners keeping the listeners bound before, as _addEventListners does
BindListenerAppends(event, listener) ==
    /\ variant = "bind"
    /\ listener = NewListener
    /\ TotalRegs(_listeners) < MaxRegs
    /\ _listeners' = [_listeners EXCEPT ![event] = Append(@, listener)]
    /\ calls' = <<>>
    /\ reqs' = <<>>
    /\ last' = [op |-> "bindListener", outcome |-> "returned", event |-> event,
                value |-> "this"]
    /\ UNCHANGED <<variant, module, subs, pending>>

\* _bindEventListners(event, listener), through any bindOn*Listeners method
BindListener(event, listener) ==
    /\ variant = "bind"
    /\ listener = NewListener
    /\ TotalRegs([_listeners EXCEPT ![event] = <<listener>>]) <= MaxRegs
    /\ _listeners' = [_listeners EXCEPT ![event] = <<listener>>]
    /\ calls' = <<>>
    /\ reqs' = <<>>
    /\ last' = [op |-> "bindListener", outcome |-> "returned", event |-> event,
                value |-> "this"]
    /\ UNCHANGED <<variant, module, subs, pending>>

\* ------------------------------------------------------------ initialize
Return(w) == [threw |-> FALSE, web3Provider |-> w]
Throw(msg) == [threw |-> TRUE, error |-> msg]

\* new ethers.providers.Web3Provider(p)
NewWeb3Provider(p) ==
    IF p = NoProvider THEN Throw("missing provider") ELSE Return(Web3Provider(p))

\* the loop over window.ethereum.providers without its break: the last entry
\* with isMetaMask, 0 if none
LastMetaMask(list) ==
    LET hits == {i \in 1..Len(list) : isMetaMask(list[i])}
    IN IF hits = {} THEN 0 ELSE CHOOSE i \in hits : \A j \in hits : i >= j

\* the first entry of window.ethereum.providers with isMetaMask, 0 if none
FirstMetaMask(list) ==
    LET hits == {i \in 1..Len(list) : isMetaMask(list[i])}
    IN IF hits = {} THEN 0 ELSE CHOOSE i \in hits : \A j \in hits : i <= j

\* the switch of initialize(walletKind)
SelectProvider(walletKind, win) ==
    CASE walletKind = MetaMask ->
            IF win.ethereum = NoEthereum
            THEN Throw("TypeError")
            ELSE IF win.ethereum.hasProviders
            THEN IF FirstMetaMask(win.ethereum.providers) = 0
                 THEN Throw(IF variant = "add" THEN "Couldn't find MetaMask."
                            ELSE "Can't find MetaMask Wallet.")
                 ELSE NewWeb3Provider(win.ethereum.providers[FirstMetaMask(win.ethereum.providers)])
            ELSE NewWeb3Provider(win.ethereum.self)
      [] walletKind = Binance ->
            IF variant = "bind" /\ win.BinanceChain = NoProvider
            THEN Throw("Can't find Binance Wallet.")
            ELSE NewWeb3Provider(win.BinanceChain)
      [] walletKind = Coinbase ->
            IF variant = "bind" /\ win.coinbaseWalletExtension = NoProvider
            THEN Throw("Can't find Coinbase Wallet.")
            ELSE NewWeb3Provider(win.coinbaseWalletExtension)
      [] OTHER ->
            Throw("Unknown is not supported at this method. Please use connectWithProvider instead.")

\* the handlers initializeWithWeb3Provider subscribes to 'chainChanged'
NewChainChangedHandlers ==
    IF variant = "add" THEN _listeners["ChainChanged"] ELSE <<EmitHandler>>

\* initializeWithWeb3Provider setting _initialized ahead of its test of the provider
InitializeWithWeb3ProviderGuardFirst(web3Provider, call) ==
    IF web3Provider # NoWeb3Provider /\ web3Provider._isProvider
    THEN /\ TotalSubs(chainChangedSubs) + Len(NewChainChangedHandlers) <= MaxSubs
         /\ Len(pending) < MaxPending
         /\ _web3Provider' = web3Provider
         /\ _initialized' = (variant = "bind")
         /\ calls' = _emitListener("WalletInstalled",
                        [installed |-> TRUE, kind |-> _determineWalletKind(web3Provider)])
         /\ _walletInstalled' = TRUE
         /\ chainChangedSubs' = [chainChangedSubs EXCEPT
                                   ![web3Provider.provider] = @ \o NewChainChangedHandlers]
         /\ pending' = Append(pending, [op |-> "getNetwork"])
         /\ reqs' = <<[method |-> "getNetwork", provider |-> web3Provider.provider]>>
         /\ last' = call @@ [outcome |-> "returned", success |-> TRUE,
                              web3Provider |-> web3Provider]
         /\ UNCHANGED <<variant, _address, _walletConnected, _listeners, accountsChangedSubs>>
    ELSE /\ _initialized' = (variant = "bind")
         /\ calls' = _emitListener("WalletInstalled", [installed |-> FALSE, kind |-> Unknown])
         /\ reqs' = <<>>
         /\ last' = call @@ [outcome |-> "returned", success |-> FALSE,
                              web3Provider |-> web3Provider]
         /\ UNCHANGED <<variant, _address, _web3Provider, _walletInstalled, _walletConnected,
                        _listeners, subs, pending>>

\* the body of initializeWithWeb3Provider(web3Provider); call is the call of
\* the application that led to it, for the step log
initializeWithWeb3Provider(web3Provider, call) ==
    IF web3Provider # NoWeb3Provider /\ web3Provider._isProvider
    THEN /\ TotalSubs(chainChangedSubs) + Len(NewChainChangedHandlers) <= MaxSubs
         /\ Len(pending) < MaxPending
         /\ _web3Provider' = web3Provider
         /\ _initialized' = (variant = "bind")
         /\ calls' = _emitListener("WalletInstalled",
                        [installed |-> TRUE, kind |-> _determineWalletKind(web3Provider)])
         /\ _walletInstalled' = TRUE
         /\ chainChangedSubs' = [chainChangedSubs EXCEPT
                                   ![web3Provider.provider] = @ \o NewChainChangedHandlers]
         /\ pending' = Append(pending, [op |-> "getNetwork"])
         /\ reqs' = <<[method |-> "getNetwork", provider |-> web3Provider.provider]>>
         /\ last' = call @@ [outcome |-> "returned", success |-> TRUE,
                              web3Provider |-> web3Provider]
         /\ UNCHANGED <<variant, _address, _walletConnected, _listeners, accountsChangedSubs>>
    ELSE /\ calls' = _emitListener("WalletInstalled", [installed |-> FALSE, kind |-> Unknown])
         /\ reqs' = <<>>
         /\ last' = call @@ [outcome |-> "returned", success |-> FALSE,
                              web3Provider |-> web3Provider]
         /\ UNCHANGED <<variant, module, _listeners, subs, pending>>

InitializeWithWeb3Provider(web3Provider) ==
    initializeWithWeb3Provider(web3Provider, [op |-> "initializeWithWeb3Provider"])

\* initialize(walletKind) from its switch on: the provider of the window is
\* wrapped and handed to initializeWithWeb3Provider
InitializeSwitch(walletKind, win) ==
    IF SelectProvider(walletKind, win).threw
    THEN /\ calls' = <<>>
         /\ reqs' = <<>>
         /\ last' = [op |-> "initialize", walletKind |-> walletKind, window |-> win,
                     outcome |-> "threw",
                     error |-> SelectProvider(walletKind, win).error]
         /\ UNCHANGED <<variant, module, _listeners, subs, pending>>
    ELSE initializeWithWeb3Provider(SelectProvider(walletKind, win).web3Provider,
                                    [op |-> "initialize", walletKind |-> walletKind,
                                     window |-> win])

\* initialize without the _initialized test
InitializeUnguarded(walletKind, win) == InitializeSwitch(walletKind, win)

\* initialize(walletKind) with the window as it is at the call
Initialize(walletKind, win) ==
    IF variant = "bind" /\ _initialized
    THEN /\ calls' = <<>>
         /\ reqs' = <<>>
         /\ last' = [op |-> "initialize", walletKind |-> walletKind, window |-> win,
                     outcome |-> "returned", success |-> FALSE,
                     guarded |-> TRUE]
         /\ UNCHANGED <<variant, module, _listeners, subs, pending>>
    ELSE InitializeSwitch(walletKind, win)

\* the getNetwork() promise of an initialization resolves: its then-callback
GetNetworkResolved(i, network) ==
    /\ i \in 1..Len(pending)
    /\ pending[i].op = "getNetwork"
    /\ pending' = Remove(pending, i)
    /\ calls' = _emitListener("ChainConnected",
                              [chainId |-> network.chainId, name |-> network.name])
    /\ reqs' = <<>>
    /\ last' = [op |-> "getNetwork", outcome |-> "resolved", network |-> network]
    /\ UNCHANGED <<variant, module, _listeners, subs>>

\* a rejection handled like an answer, reporting an unknown network
GetNetworkRejectedEmits(i) ==
    /\ i \in 1..Len(pending)
    /\ pending[i].op = "getNetwork"
    /\ pending' = Remove(pending, i)
    /\ calls' = _emitListener("ChainConnected", [chainId |-> 0, name |-> "unknown"])
    /\ reqs' = <<>>
    /\ last' = [op |-> "getNetwork", outcome |-> "rejected"]
    /\ UNCHANGED <<variant, module, _listeners, subs>>

\* the getNetwork() promise rejects: there is no catch, nothing runs
GetNetworkRejected(i) ==
    /\ i \in 1..Len(pending)
    /\ pending[i].op = "getNetwork"
    /\ pending' = Remove(pending, i)
    /\ calls' = <<>>
    /\ reqs' = <<>>
    /\ last' = [op |-> "getNetwork", outcome |-> "rejected"]
    /\ UNCHANGED <<variant, module, _listeners, subs>>

\* --------------------------------------------------------------- connect
\* connect() up to its await: the eth_requestAccounts request is sent; on a
\* module without provider the send throws inside the try block
Connect ==
    IF _web3Provider = NoWeb3Provider
    THEN /\ calls' = _emitListener("AccountConnectCanceled", Void)
         /\ reqs' = <<>>
         /\ last' = [op |-> "connect", outcome |-> "resolved", canceled |-> TRUE]
         /\ UNCHANGED <<variant, module, _listeners, subs, pending>>
    ELSE /\ Len(pending) < MaxPending
         /\ pending' = Append(pending, [op |-> "connect"])
         /\ calls' = <<>>
         /\ reqs' = <<[method |-> "eth_requestAccounts", provider |-> _web3Provider.provider]>>
         /\ last' = [op |-> "connect", outcome |-> "pending"]
         /\ UNCHANGED <<variant, module, _listeners, subs>>

\* the handlers connect() subscribes to 'accountsChanged'
NewAccountsChangedHandlers ==
    IF variant = "add" THEN _listeners["AccountChanged"] ELSE <<EmitHandler>>

\* _emitAccountChanged with the comparison turned around
AccountConnectsInverted(account) == Len(account) = 0

\* _emitAccountChanged(param): the new value of _walletConnected
AccountConnects(account) == Len(account) > 0

\* connect() after its await, the provider having answered with accounts
ConnectResolved(i, accounts) ==
    /\ i \in 1..Len(pending)
    /\ pending[i].op = "connect"
    /\ pending' = Remove(pending, i)
    /\ reqs' = <<>>
    /\ last' = [op |-> "connect", outcome |-> "resolved", canceled |-> FALSE,
                accounts |-> accounts]
    /\ IF Len(accounts) > 0
       THEN /\ TotalSubs(accountsChangedSubs) + Len(NewAccountsChangedHandlers) <= MaxSubs
            /\ _address' = accounts[1]
            /\ accountsChangedSubs' = [accountsChangedSubs EXCEPT
                   ![_web3Provider.provider] = @ \o NewAccountsChangedHandlers]
            /\ calls' = _emitListener("AccountChanged", [account |-> accounts[1]])
            /\ _walletConnected' = AccountConnects(accounts[1])
       ELSE /\ calls' = <<>>
            /\ UNCHANGED <<_address, accountsChangedSubs, _walletConnected>>
    /\ UNCHANGED <<variant, _initialized, _web3Provider, _walletInstalled, _listeners,
                   chainChangedSubs>>

\* the catch block of connect() also dropping the connection
ConnectRejectedDisconnects(i) ==
    /\ i \in 1..Len(pending)
    /\ pending[i].op = "connect"
    /\ pending' = Remove(pending, i)
    /\ calls' = _emitListener("AccountConnectCanceled", Void)
    /\ reqs' = <<>>
    /\ last' = [op |-> "connect", outcome |-> "resolved", canceled |-> TRUE]
    /\ _walletConnected' = FALSE
    /\ UNCHANGED <<variant, _initialized, _address, _web3Provider, _walletInstalled,
                   _listeners, subs>>

\* connect() after its await, the provider having rejected: the catch block
ConnectRejected(i) ==
    /\ i \in 1..Len(pending)
    /\ pending[i].op = "connect"
    /\ pending' = Remove(pending, i)
    /\ calls' = _emitListener("AccountConnectCanceled", Void)
    /\ reqs' = <<>>
    /\ last' = [op |-> "connect", outcome |-> "resolved", canceled |-> TRUE]
    /\ UNCHANGED <<variant, module, _listeners, subs>>

\* ------------------------------------------------------------ disconnect
\* disconnect() emitting only when the wallet was connected
DisconnectIfConnected ==
    /\ _walletConnected' = FALSE
    /\ calls' = IF _walletConnected THEN _emitListener("Disconnected", Void) ELSE <<>>
    /\ reqs' = <<>>
    /\ last' = [op |-> "disconnect", outcome |-> "returned"]
    /\ UNCHANGED <<variant, _initialized, _address, _web3Provider, _walletInstalled,
                   _listeners, subs, pending>>

Disconnect ==
    /\ _walletConnected' = FALSE
    /\ calls' = _emitListener("Disconnected", Void)
    /\ reqs' = <<>>
    /\ last' = [op |-> "disconnect", outcome |-> "returned"]
    /\ UNCHANGED <<variant, _initialized, _address, _web3Provider, _walletInstalled,
                   _listeners, subs, pending>>

\* ------------------------------------------------------- provider events
\* the providers whose events can reach the module
Live == {p \in RawProviders : \/ p = _web3Provider.provider
                               \/ chainChangedSubs[p] # <<>>
                               \/ accountsChangedSubs[p] # <<>>}

\* provider p emits chainChanged(chainId): its handlers run in order
ProviderChainChanged(p, chainId) ==
    /\ p \in Live
    /\ calls' = DispatchChainChanged(chainChangedSubs[p], chainId)
    /\ reqs' = <<>>
    /\ last' = [op |-> "chainChanged", outcome |-> "returned", provider |-> p,
                chainId |-> chainId]
    /\ UNCHANGED <<variant, module, _listeners, subs, pending>>

\* provider p emits accountsChanged(accountArray): every handler tests
\* _walletConnected, then stores accountArray[0] and calls back
ProviderAccountsChanged(p, accountArray) ==
    /\ p \in Live
    /\ IF _walletConnected /\ accountsChangedSubs[p] # <<>>
       THEN /\ _address' = First(accountArray)
            /\ calls' = DispatchAccountsChanged(accountsChangedSubs[p], accountArray)
       ELSE /\ calls' = <<>>
            /\ UNCHANGED _address
    /\ reqs' = <<>>
    /\ last' = [op |-> "accountsChanged", outcome |-> "returned", provider |-> p,
                accountArray |-> accountArray]
    /\ UNCHANGED <<variant, _initialized, _web3Provider, _walletInstalled, _walletConnected,
                   _listeners, subs, pending>>

\* -------------------------------------------------------------- balances
\* a balance is a BigNumber of wei; the model counts it in units of 10^17 wei
Balances == {0, 15}

Digit(d) == CASE d = 0 -> "0" [] d = 1 -> "1" [] d = 2 -> "2" [] d = 3 -> "3"
              [] d = 4 -> "4" [] d = 5 -> "5" [] d = 6 -> "6" [] d = 7 -> "7"
              [] d = 8 -> "8" [] d = 9 -> "9" [] d = 10 -> "a" [] d = 11 -> "b"
              [] d = 12 -> "c" [] d = 13 -> "d" [] d = 14 -> "e" [] OTHER -> "f"

\* Number.prototype.toString(radix) of a natural number
RECURSIVE NumToString(_, _)
NumToString(n, radix) ==
    IF n < radix THEN <<Digit(n)>>
    ELSE Append(NumToString(n \div radix, radix), Digit(n % radix))

Zeros17 == [i \in 1..17 |-> "0"]

\* balance.toString(): the wei, in decimal
BalanceToString(b) == IF b = 0 THEN <<"0">> ELSE NumToString(b, 10) \o Zeros17

\* ethers.utils.formatEther(balance): the ether, with one decimal at least
formatEther(b) == NumToString(b \div 10, 10) \o <<".">> \o NumToString(b % 10, 10)

\* getBalance testing _address, as the getters do, in place of _walletConnected
GetBalanceTestsAddress(inEther) ==
    IF ~Truthy(_address)
    THEN /\ calls' = <<>>
         /\ reqs' = <<>>
         /\ last' = [op |-> "getBalance", outcome |-> "rejected", error |-> ErrNotConnected]
         /\ UNCHANGED <<variant, module, _listeners, subs, pending>>
    ELSE /\ Len(pending) < MaxPending
         /\ pending' = Append(pending, [op |-> "getBalance", address |-> _address,
                                        inEther |-> inEther])
         /\ calls' = <<>>
         /\ reqs' = <<[method |-> "getBalance", provider |-> _web3Provider.provider,
                       address |-> _address]>>
         /\ last' = [op |-> "getBalance", outcome |-> "pending"]
         /\ UNCHANGED <<variant, module, _listeners, subs>>

\* getBalance(inEther) up to its await
GetBalance(inEther) ==
    IF ~_walletConnected
    THEN /\ calls' = <<>>
         /\ reqs' = <<>>
         /\ last' = [op |-> "getBalance", outcome |-> "rejected", error |-> ErrNotConnected]
         /\ UNCHANGED <<variant, module, _listeners, subs, pending>>
    ELSE /\ Len(pending) < MaxPending
         /\ pending' = Append(pending, [op |-> "getBalance", address |-> _address,
                                        inEther |-> inEther])
         /\ calls' = <<>>
         /\ reqs' = <<[method |-> "getBalance", provider |-> _web3Provider.provider,
                       address |-> _address]>>
         /\ last' = [op |-> "getBalance", outcome |-> "pending"]
         /\ UNCHANGED <<variant, module, _listeners, subs>>

\* getBalance after its await, the provider having answered balance
GetBalanceResolved(i, balance) ==
    /\ i \in 1..Len(pending)
    /\ pending[i].op = "getBalance"
    /\ pending' = Remove(pending, i)
    /\ calls' = <<>>
    /\ reqs' = <<>>
    /\ last' = [op |-> "getBalance", outcome |-> "resolved",
                address |-> pending[i].address, inEther |-> pending[i].inEther,
                balance |-> balance,
                value |-> IF pending[i].inEther THEN formatEther(balance)
                          ELSE BalanceToString(balance)]
    /\ UNCHANGED <<variant, module, _listeners, subs>>

\* getBalance after its await, the provider having failed
GetBalanceRejected(i) ==
    /\ i \in 1..Len(pending)
    /\ pending[i].op = "getBalance"
    /\ pending' = Remove(pending, i)
    /\ calls' = <<>>
    /\ reqs' = <<>>
    /\ last' = [op |-> "getBalance", outcome |-> "rejected", error |-> "provider error"]
    /\ UNCHANGED <<variant, module, _listeners, subs>>

\* loadBalance() up to its await; without provider the call itself fails
LoadBalance ==
    IF _web3Provider = NoWeb3Provider
    THEN /\ calls' = <<>>
         /\ reqs' = <<>>
         /\ last' = [op |-> "loadBalance", outcome |-> "rejected", error |-> "TypeError"]
         /\ UNCHANGED <<variant, module, _listeners, subs, pending>>
    ELSE /\ Len(pending) < MaxPending
         /\ pending' = Append(pending, [op |-> "loadBalance", address |-> _address])
         /\ calls' = <<>>
         /\ reqs' = <<[method |-> "getBalance", provider |-> _web3Provider.provider,
                       address |-> _address]>>
         /\ last' = [op |-> "loadBalance", outcome |-> "pending"]
         /\ UNCHANGED <<variant, module, _listeners, subs>>

\* loadBalance telling the listeners only while the wallet is still connected
LoadBalanceResolvedIfConnected(i, balance) ==
    /\ i \in 1..Len(pending)
    /\ pending[i].op = "loadBalance"
    /\ pending' = Remove(pending, i)
    /\ calls' = IF _walletConnected
                THEN _emitListener("BalanceChanged", [balance |-> balance])
                ELSE <<>>
    /\ reqs' = <<>>
    /\ last' = [op |-> "loadBalance", outcome |-> "resolved",
                address |-> pending[i].address, balance |-> balance]
    /\ UNCHANGED <<variant, module, _listeners, subs>>

\* loadBalance after its await, the provider having answered balance
LoadBalanceResolved(i, balance) ==
    /\ i \in 1..Len(pending)
    /\ pending[i].op = "loadBalance"
    /\ pending' = Remove(pending, i)
    /\ calls' = _emitListener("BalanceChanged", [balance |-> balance])
    /\ reqs' = <<>>
    /\ last' = [op |-> "loadBalance", outcome |-> "resolved",
                address |-> pending[i].address, balance |-> balance]
    /\ UNCHANGED <<variant, module, _listeners, subs>>

\* loadBalance after its await, the provider having failed
LoadBalanceRejected(i) ==
    /\ i \in 1..Len(pending)
    /\ pending[i].op = "loadBalance"
    /\ pending' = Remove(pending, i)
    /\ calls' = <<>>
    /\ reqs' = <<>>
    /\ last' = [op |-> "loadBalance", outcome |-> "rejected", error |-> "provider error"]
    /\ UNCHANGED <<variant, module, _listeners, subs>>

\* ---------------------------------------------------------- switchNetwork
ChainIds == {1, 56, 137}

\* addNetworkIfNotExists: omitted, or the parameter of wallet_addEthereumChain
NoAddNetworkParam == [given |-> FALSE]
AddNetworkParam(chainId) ==
    [given |-> TRUE, chainId |-> <<"0", "x">> \o NumToString(chainId, 16)]
AddNetworkParams == {NoAddNetworkParam, AddNetworkParam(137)}

\* why a wallet refuses wallet_switchEthereumChain: 4902 chain unknown, 4001 user rejected
SwitchErrors == {4902, 4001}

\* the request with the chain id written in decimal
SwitchRequestDecimal(chainId) ==
    [method |-> "wallet_switchEthereumChain",
     chainId |-> <<"0", "x">> \o NumToString(chainId, 10)]

\* the two requests switchNetwork sends
SwitchRequest(chainId) ==
    [method |-> "wallet_switchEthereumChain",
     chainId |-> <<"0", "x">> \o NumToString(chainId, 16)]

AddRequest(param) == [method |-> "wallet_addEthereumChain", param |-> param]

\* switchNetwork(chainId, addNetworkIfNotExists) up to its first await; without
\* provider both sends throw
SwitchNetwork(chainId, addNetworkIfNotExists) ==
    IF _web3Provider = NoWeb3Provider
    THEN /\ calls' = <<>>
         /\ reqs' = <<>>
         /\ last' = [op |-> "switchNetwork",
                     outcome |-> IF addNetworkIfNotExists.given THEN "rejected" ELSE "resolved",
                     chainId |-> chainId, addNetworkIfNotExists |-> addNetworkIfNotExists]
         /\ UNCHANGED <<variant, module, _listeners, subs, pending>>
    ELSE /\ Len(pending) < MaxPending
         /\ pending' = Append(pending, [op |-> "switchNetwork",
                                        addNetworkIfNotExists |-> addNetworkIfNotExists])
         /\ calls' = <<>>
         /\ reqs' = <<SwitchRequest(chainId)>>
         /\ last' = [op |-> "switchNetwork", outcome |-> "pending",
                     chainId |-> chainId, addNetworkIfNotExists |-> addNetworkIfNotExists]
         /\ UNCHANGED <<variant, module, _listeners, subs>>

\* wallet_switchEthereumChain succeeded
SwitchNetworkResolved(i) ==
    /\ i \in 1..Len(pending)
    /\ pending[i].op = "switchNetwork"
    /\ pending' = Remove(pending, i)
    /\ calls' = <<>>
    /\ reqs' = <<>>
    /\ last' = [op |-> "switchNetwork", outcome |-> "resolved",
                answered |-> "wallet_switchEthereumChain", ok |-> TRUE]
    /\ UNCHANGED <<variant, module, _listeners, subs>>

\* wallet_switchEthereumChain failed with error code: the catch block
SwitchNetworkRejected(i, code) ==
    /\ i \in 1..Len(pending)
    /\ pending[i].op = "switchNetwork"
    /\ calls' = <<>>
    /\ IF pending[i].addNetworkIfNotExists.given
       THEN /\ pending' = [pending EXCEPT ![i] = [op |-> "addNetwork"]]
            /\ reqs' = <<AddRequest(pending[i].addNetworkIfNotExists)>>
            /\ last' = [op |-> "switchNetwork", outcome |-> "pending",
                        answered |-> "wallet_switchEthereumChain", ok |-> FALSE,
                        code |-> code,
                        addNetworkIfNotExists |-> pending[i].addNetworkIfNotExists]
       ELSE /\ pending' = Remove(pending, i)
            /\ reqs' = <<>>
            /\ last' = [op |-> "switchNetwork", outcome |-> "resolved",
                        answered |-> "wallet_switchEthereumChain", ok |-> FALSE,
                        code |-> code,
                        addNetworkIfNotExists |-> pending[i].addNetworkIfNotExists]
    /\ UNCHANGED <<variant, module, _listeners, subs>>

\* wallet_addEthereumChain answered: switchNetwork settles the same way
AddNetworkSettled(i, ok) ==
    /\ i \in 1..Len(pending)
    /\ pending[i].op = "addNetwork"
    /\ pending' = Remove(pending, i)
    /\ calls' = <<>>
    /\ reqs' = <<>>
    /\ last' = [op |-> "switchNetwork", outcome |-> IF ok THEN "resolved" ELSE "rejected",
                answered |-> "wallet_addEthereumChain", ok |-> ok]
    /\ UNCHANGED <<variant, module, _listeners, subs>>

\* ------------------------------------------------------------------ next
Next ==
    \/ \E e \in WalletModuleEvent, l \in Listeners : AddListener(e, l)
    \/ \E e \in WalletModuleEvent, l \in Listeners : BindListener(e, l)
    \/ \E k \in WalletKind, win \in Windows : Initialize(k, win)
    \/ \E w \in Web3Providers : InitializeWithWeb3Provider(w)
    \/ \E i \in 1..MaxPending, n \in Networks : GetNetworkResolved(i, n)
    \/ \E i \in 1..MaxPending : GetNetworkRejected(i)
    \/ Connect
    \/ \E i \in 1..MaxPending, a \in AccountLists : ConnectResolved(i, a)
    \/ \E i \in 1..MaxPending : ConnectRejected(i)
    \/ Disconnect
    \/ \E p \in RawProviders, h \in ChainIdHex : ProviderChainChanged(p, h)
    \/ \E p \in RawProviders, a \in AccountLists : ProviderAccountsChanged(p, a)
    \/ \E b \in BOOLEAN : GetBalance(b)
    \/ \E i \in 1..MaxPending, b \in Balances : GetBalanceResolved(i, b)
    \/ \E i \in 1..MaxPending : GetBalanceRejected(i)
    \/ LoadBalance
    \/ \E i \in 1..MaxPending, b \in Balances : LoadBalanceResolved(i, b)
    \/ \E i \in 1..MaxPending : LoadBalanceRejected(i)
    \/ \E c \in ChainIds, a \in AddNetworkParams : SwitchNetwork(c, a)
    \/ \E i \in 1..MaxPending : SwitchNetworkResolved(i)
    \/ \E i \in 1..MaxPending, code \in SwitchErrors : SwitchNetworkRejected(i, code)
    \/ \E i \in 1..MaxPending, ok \in BOOLEAN : AddNetworkSettled(i, ok)

Spec == Init /\ [][Next]_vars

\* ----------------------------------------------------------------- slices
\* The events are independent of each other in the code: an emission of E
\* reads the registry entry of E alone, and getBalance, loadBalance and
\* switchNetwork change nothing but the requests in flight.  Each of the
\* specifications below is the module with the application calling one group
\* of its operations and registering listeners for the events of that group.

ConnectEvents == {"AccountChanged", "AccountConnectCanceled", "Disconnected"}
InitEvents == {"WalletInstalled", "ChainConnected", "ChainChanged"}
BalanceEvents == {"BalanceChanged"}

Register(events) ==
    \/ \E e \in events, l \in Listeners : AddListener(e, l)
    \/ \E e \in events, l \in Listeners : BindListener(e, l)

\* the windows of the connection slices: no wallet installed; MetaMask and
\* the Coinbase extension installed
ConnectWindows == {Window(NoEthereum, NoProvider, NoProvider),
                   Window(Ethereum(3), NoProvider, 6)}

\* initialization, connection and the provider's account events
NextConnect ==
    \/ Register(ConnectEvents)
    \/ \E k \in WalletKind, win \in ConnectWindows : Initialize(k, win)
    \/ \E i \in 1..MaxPending, n \in Networks : GetNetworkResolved(i, n)
    \/ \E i \in 1..MaxPending : GetNetworkRejected(i)
    \/ Connect
    \/ \E i \in 1..MaxPending, a \in AccountLists : ConnectResolved(i, a)
    \/ \E i \in 1..MaxPending : ConnectRejected(i)
    \/ Disconnect
    \/ \E p \in RawProviders, a \in AccountLists : ProviderAccountsChanged(p, a)

SpecConnect == Init /\ [][NextConnect]_vars

\* initialization and the provider's chain events
NextInit ==
    \/ Register(InitEvents)
    \/ \E k \in WalletKind, win \in Windows : Initialize(k, win)
    \/ \E w \in Web3Providers : InitializeWithWeb3Provider(w)
    \/ \E i \in 1..MaxPending, n \in Networks : GetNetworkResolved(i, n)
    \/ \E i \in 1..MaxPending : GetNetworkRejected(i)
    \/ \E p \in RawProviders, h \in ChainIdHex : ProviderChainChanged(p, h)

SpecInit == Init /\ [][NextInit]_vars

\* connection and the two balance operations
NextBalance ==
    \/ Register(BalanceEvents)
    \/ \E k \in WalletKind, win \in ConnectWindows : Initialize(k, win)
    \/ \E i \in 1..MaxPending, n \in Networks : GetNetworkResolved(i, n)
    \/ \E i \in 1..MaxPending : GetNetworkRejected(i)
    \/ Connect
    \/ \E i \in 1..MaxPending, a \in AccountLists : ConnectResolved(i, a)
    \/ \E i \in 1..MaxPending : ConnectRejected(i)
    \/ Disconnect
    \/ \E p \in RawProviders, a \in AccountLists : ProviderAccountsChanged(p, a)
    \/ \E b \in BOOLEAN : GetBalance(b)
    \/ \E i \in 1..MaxPending, b \in Balances : GetBalanceResolved(i, b)
    \/ \E i \in 1..MaxPending : GetBalanceRejected(i)
    \/ LoadBalance
    \/ \E i \in 1..MaxPending, b \in Balances : LoadBalanceResolved(i, b)
    \/ \E i \in 1..MaxPending : LoadBalanceRejected(i)

SpecBalance == Init /\ [][NextBalance]_vars

\* initialization and switchNetwork
NextSwitch ==
    \/ \E k \in WalletKind, win \in ConnectWindows : Initialize(k, win)
    \/ \E i \in 1..MaxPending, n \in Networks : GetNetworkResolved(i, n)
    \/ \E i \in 1..MaxPending : GetNetworkRejected(i)
    \/ \E c \in ChainIds, a \in AddNetworkParams : SwitchNetwork(c, a)
    \/ \E i \in 1..MaxPending : SwitchNetworkResolved(i)
    \/ \E i \in 1..MaxPending, code \in SwitchErrors : SwitchNetworkRejected(i, code)
    \/ \E i \in 1..MaxPending, ok \in BOOLEAN : AddNetworkSettled(i, ok)

SpecSwitch == Init /\ [][NextSwitch]_vars

\* ----------------------------------------------------------------- claims
\* what an emission of event with param must invoke: every listener of the
\* registry entry, once, in registration order
Expected(event, param) ==
    [i \in 1..Len(_listeners[event]) |-> Call(event, _listeners[event][i], param)]

\* the invocations among cs of listener l
CallsOf(cs, l) == {i \in 1..Len(cs) : cs[i].listener = l}

\* the last step was connect() resuming with a non-empty answer
ConnectSucceeded ==
    /\ last.op = "connect"
    /\ last.outcome = "resolved"
    /\ ~last.canceled
    /\ Len(last.accounts) > 0

\* C1: when the provider answers eth_requestAccounts of connect() with a
\* non-empty list, then after connect() address is the first account of the
\* list, connected is true, and every AccountChanged listener was invoked
\* exactly once by the call, with that account.
C1_ConnectSuccess ==
    ConnectSucceeded =>
        /\ address = [threw |-> FALSE, value |-> last.accounts[1]]
        /\ connected = TRUE
        /\ calls = Expected("AccountChanged", [account |-> last.accounts[1]])
        /\ \A l \in Registered : l \in {_listeners["AccountChanged"][i] :
                                           i \in 1..Len(_listeners["AccountChanged"])}
                                   => Cardinality(CallsOf(calls, l)) = 1

C1_Witness ==
    /\ ConnectSucceeded
    /\ Len(_listeners["AccountChanged"]) >= 2
    /\ last.accounts = <<Acct2, Acct1>>

\* the step in which a pending connect() resumes in its catch block
ConnectRejectedStep ==
    /\ last'.op = "connect"
    /\ last'.outcome # "pending"
    /\ Len(pending') < Len(pending)
    /\ last'.canceled

\* C2: when the provider rejects eth_requestAccounts, connect() resolves,
\* every AccountConnectCanceled listener is invoked exactly once, no
\* AccountChanged listener is invoked, and connected and address are unchanged.
C2_ConnectRejected ==
    [][ConnectRejectedStep =>
          /\ last'.outcome = "resolved"
          /\ calls' = Expected("AccountConnectCanceled", Void)'
          /\ \A i \in 1..Len(calls') : calls'[i].event # "AccountChanged"
          /\ _walletConnected' = _walletConnected
          /\ _address' = _address]_vars

C2_Witness ==
    /\ last.op = "connect"
    /\ last.outcome = "resolved"
    /\ last.canceled
    /\ connected
    /\ Len(_listeners["AccountConnectCanceled"]) >= 1
    /\ Len(_listeners["AccountChanged"]) >= 1

\* C3: disconnect(), in any state, leaves connected false, invokes every
\* Disconnected listener exactly once, sends no request to the provider and
\* leaves the stored provider and installed unchanged.
C3_Disconnect ==
    [][last'.op = "disconnect" =>
          /\ connected' = FALSE
          /\ calls' = Expected("Disconnected", Void)'
          /\ reqs' = <<>>
          /\ pending' = pending
          /\ provider' = provider
          /\ installed' = installed]_vars

C3_Witness ==
    /\ last.op = "disconnect"
    /\ Len(_listeners["Disconnected"]) >= 2
    /\ installed
    /\ _address # Undefined

\* C4 as claimed: an accountsChanged event of the module's provider invokes
\* no AccountChanged listener and leaves address alone while connected is
\* false; while connected is true it sets address to the first account of the
\* event and invokes every AccountChanged listener with that account.
C4_AccountsChangedAsClaimed ==
    [][(/\ last'.op = "accountsChanged"
        /\ last'.provider = _web3Provider.provider
        /\ Len(last'.accountArray) > 0) =>
          /\ ~_walletConnected =>
                /\ calls' = <<>>
                /\ _address' = _address
          /\ _walletConnected =>
                /\ _address' = First(last'.accountArray)
                /\ \A i \in 1..Len(_listeners["AccountChanged"]) :
                      \E j \in 1..Len(calls') :
                          calls'[j] = Call("AccountChanged", _listeners["AccountChanged"][i],
                                           [account |-> First(last'.accountArray)])]_vars

\* the integer a chain id of ChainIdHex denotes
IntegerValue(h) == IF h = <<"0", "x", "1">> THEN 1 ELSE 137

\* C5 as claimed (add revision): after a successful initialization a
\* chainChanged event of the provider, carrying h, invokes every listener now
\* registered for ChainChanged with the integer value of h, whether it was
\* added before or after the initialization.
C5_ChainChangedAsClaimed ==
    (/\ variant = "add"
     /\ last.op = "chainChanged"
     /\ provider # NoWeb3Provider
     /\ last.provider = provider.provider) =>
        \A i \in 1..Len(_listeners["ChainChanged"]) :
            \E j \in 1..Len(calls) :
                calls[j] = Call("ChainChanged", _listeners["ChainChanged"][i],
                                [chainId |-> IntegerValue(last.chainId)])

\* the last step was a successful initialization
InitSucceeded ==
    /\ last.op \in {"initialize", "initializeWithWeb3Provider"}
    /\ last.outcome = "returned"
    /\ last.success

\* the kind the flags of raw provider p stand for, by priority
KindByPriority(p) ==
    CASE isMetaMask(p) -> MetaMask
      [] ~isMetaMask(p) /\ isCoinbaseWallet(p) -> Coinbase
      [] ~isMetaMask(p) /\ ~isCoinbaseWallet(p) /\ bnbSign(p) -> Binance
      [] OTHER -> Unknown

\* C6: a successful initialization invokes every WalletInstalled listener
\* exactly once with installed = true and the kind the provider's flags give
\* by the priority MetaMask, Coinbase, Binance, Unknown.
C6_WalletInstalledKind ==
    InitSucceeded =>
        calls = Expected("WalletInstalled",
                         [installed |-> TRUE, kind |-> KindByPriority(last.web3Provider.provider)])

C6_Witness ==
    /\ InitSucceeded
    /\ Len(_listeners["WalletInstalled"]) >= 1
    /\ last.web3Provider.provider = 6
    /\ calls[1].param.kind = Coinbase

\* C7 (bind revision): once a provider is stored, initialize(kind) returns
\* without throwing, invokes no listener, sends no request, adds no
\* subscription and leaves provider, installed, connected and address alone.
C7_InitializeOnce ==
    [][(/\ variant = "bind"
        /\ provider # NoWeb3Provider
        /\ last'.op = "initialize") =>
          /\ last'.outcome = "returned"
          /\ calls' = <<>>
          /\ reqs' = <<>>
          /\ UNCHANGED <<chainChangedSubs, accountsChangedSubs, pending, _listeners>>
          /\ provider' = provider
          /\ installed' = installed
          /\ connected' = connected
          /\ _address' = _address]_vars

C7_Witness ==
    /\ variant = "bind"
    /\ last.op = "initialize"
    /\ last.outcome = "returned"
    /\ ~last.success
    /\ connected
    /\ provider # NoWeb3Provider

\* C8 as claimed (bind revision): after any sequence of initialize and
\* initializeWithWeb3Provider calls the stored provider is the one of the
\* first successful initialization, and one chainChanged event of it invokes
\* the bound ChainChanged listener exactly once.
C8_InitializedOnceAsClaimed ==
    [][variant = "bind" =>
          /\ provider # NoWeb3Provider => provider' = provider
          /\ (/\ last'.op = "chainChanged"
              /\ provider' # NoWeb3Provider
              /\ last'.provider = provider'.provider
              /\ Len(_listeners'["ChainChanged"]) = 1) =>
                 calls' = <<Call("ChainChanged", _listeners'["ChainChanged"][1],
                                 [chainId |-> IntegerValue(last'.chainId)])>>]_vars

\* the text of a balance of Balances
BalanceText(b, inEther) ==
    IF inEther
    THEN IF b = 0 THEN <<"0", ".", "0">> ELSE <<"1", ".", "5">>
    ELSE IF b = 0 THEN <<"0">>
         ELSE <<"1", "5", "0", "0", "0", "0", "0", "0", "0", "0", "0", "0", "0", "0", "0",
                "0", "0", "0", "0">>

\* C9: getBalance() called while connected is false rejects with 'Wallet not
\* connected.', sends no request and invokes no listener; called while
\* connected it asks the provider for the balance of the current address and
\* resolves to the balance the provider answers.
C9_GetBalance ==
    [][last'.op = "getBalance" =>
          /\ calls' = <<>>
          /\ (Len(pending') >= Len(pending) /\ ~connected) =>
                /\ last'.outcome = "rejected"
                /\ last'.error = ErrNotConnected
                /\ reqs' = <<>>
                /\ pending' = pending
          /\ (Len(pending') >= Len(pending) /\ connected) =>
                /\ last'.outcome = "pending"
                /\ reqs' = <<[method |-> "getBalance", provider |-> provider.provider,
                              address |-> _address]>>
                /\ pending'[Len(pending')].address = _address
          /\ (Len(pending') < Len(pending) /\ last'.outcome = "resolved") =>
                /\ \E i \in 1..Len(pending) : /\ pending[i].op = "getBalance"
                                              /\ pending[i].address = last'.address
                /\ last'.value = BalanceText(last'.balance, last'.inEther)]_vars

C9_Witness ==
    /\ last.op = "getBalance"
    /\ last.outcome = "resolved"
    /\ last.inEther
    /\ last.balance = 15
    /\ last.address = Acct2

\* C10 as claimed: whenever connected is false, reading address or
\* shortenAddress throws 'Wallet not connected.'.
C10_GettersThrowAsClaimed ==
    ~connected =>
        /\ address = [threw |-> TRUE, error |-> ErrNotConnected]
        /\ shortenAddress = [threw |-> TRUE, error |-> ErrNotConnected]

\* the emissions through _emitListener that the last step made, in order:
\* the event and the payload of each
Emissions ==
    CASE last.op \in {"initialize", "initializeWithWeb3Provider"}
             /\ last.outcome = "returned" /\ "web3Provider" \in DOMAIN last ->
            <<[event |-> "WalletInstalled",
               param |-> [installed |-> last.success,
                          kind |-> IF last.success
                                   THEN _determineWalletKind(last.web3Provider)
                                   ELSE Unknown]]>>
      [] last.op = "getNetwork" /\ last.outcome = "resolved" ->
            <<[event |-> "ChainConnected",
               param |-> [chainId |-> last.network.chainId, name |-> last.network.name]]>>
      [] last.op = "connect" /\ last.outcome = "resolved" /\ last.canceled ->
            <<[event |-> "AccountConnectCanceled", param |-> Void]>>
      [] last.op = "connect" /\ last.outcome = "resolved" /\ Len(last.accounts) > 0 ->
            <<[event |-> "AccountChanged", param |-> [account |-> last.accounts[1]]]>>
      [] last.op = "disconnect" ->
            <<[event |-> "Disconnected", param |-> Void]>>
      [] last.op = "loadBalance" /\ last.outcome = "resolved" ->
            <<[event |-> "BalanceChanged", param |-> [balance |-> last.balance]]>>
      [] last.op = "chainChanged" /\ variant = "bind" ->
            [h \in 1..Len(chainChangedSubs[last.provider]) |->
                [event |-> "ChainChanged",
                 param |-> [chainId |-> parseInt16(last.chainId)]]]
      [] last.op = "accountsChanged" /\ variant = "bind" /\ _walletConnected ->
            [h \in 1..Len(accountsChangedSubs[last.provider]) |->
                [event |-> "AccountChanged",
                 param |-> [account |-> First(last.accountArray)]]]
      [] OTHER -> <<>>

\* s is an initial part of t
IsPrefix(s, t) == Len(s) <= Len(t) /\ \A i \in 1..Len(s) : s[i] = t[i]

C12_BindHoldsOne ==
    [][variant = "bind" =>
          /\ \A e \in WalletModuleEvent : Len(_listeners'[e]) <= 1
          /\ last'.op = "bindListener" =>
                /\ Len(_listeners'[last'.event]) = 1
                /\ _listeners'[last'.event] # _listeners[last'.event]
                /\ \A e \in WalletModuleEvent \ {last'.event} : _listeners'[e] = _listeners[e]
          /\ Emissions' # <<>> =>
                LET E == Emissions'[1].event
                IN /\ last'.outcome # "threw"
                   /\ IF _listeners[E] = <<>>
                      THEN calls' = <<>>
                      ELSE /\ Len(calls') = Len(Emissions')
                           /\ \A i \in 1..Len(calls') :
                                  calls'[i] = Call(Emissions'[i].event, _listeners[E][1],
                                                   Emissions'[i].param)]_vars

\* an emission has invoked the listener that was bound in the place of an
\* earlier one, and only it
C12_Witness ==
    /\ variant = "bind"
    /\ Emissions # <<>>
    /\ Registered = {2}
    /\ Len(calls) = 1
    /\ calls[1].listener = 2

\* the positions of the requests of operation op that are in flight
InFlight(op) == {i \in 1..Len(pending) : pending[i].op = op}

\* C13: a successful initialization invokes WalletInstalled listeners only and
\* leaves exactly one getNetwork request in flight; ChainConnected listeners
\* are invoked only by the step in which such a request resolves, which is a
\* later step, takes that one request away and invokes every ChainConnected
\* listener exactly once with the chainId and the name of the network of the
\* answer; a request that is rejected or never answered invokes nothing, and
\* no other step creates or removes a getNetwork request.
C13_ChainConnected ==
    [][/\ InitSucceeded' =>
             /\ pending' = Append(pending, [op |-> "getNetwork"])
             /\ reqs' = <<[method |-> "getNetwork",
                           provider |-> last'.web3Provider.provider]>>
             /\ \A i \in 1..Len(calls') : calls'[i].event = "WalletInstalled"
       /\ (\E i \in 1..Len(calls') : calls'[i].event = "ChainConnected") =>
             /\ last'.op = "getNetwork"
             /\ last'.outcome = "resolved"
       /\ last'.op = "getNetwork" =>
             /\ Len(pending') = Len(pending) - 1
             /\ Cardinality(InFlight("getNetwork")') = Cardinality(InFlight("getNetwork")) - 1
             /\ IF last'.outcome = "resolved"
                THEN /\ Len(calls') = Len(_listeners["ChainConnected"])
                     /\ \A i \in 1..Len(calls') :
                            calls'[i] = Call("ChainConnected", _listeners["ChainConnected"][i],
                                             [chainId |-> last'.network.chainId,
                                              name |-> last'.network.name])
                ELSE calls' = <<>>
       /\ (~InitSucceeded' /\ last'.op # "getNetwork") =>
             Cardinality(InFlight("getNetwork")') = Cardinality(InFlight("getNetwork"))]_vars

\* the getNetwork request of an initialization has resolved with the Polygon
\* network and the ChainConnected listeners were told so
C13_Witness ==
    /\ last.op = "getNetwork"
    /\ last.outcome = "resolved"
    /\ last.network = [chainId |-> 137, name |-> "matic"]
    /\ installed
    /\ Len(calls) >= 1
    /\ Len(_listeners["WalletInstalled"]) >= 1

\* the last step was initializeWithWeb3Provider called without a provider or
\* with an object whose _isProvider flag is falsy
InitRefused ==
    /\ last.op = "initializeWithWeb3Provider"
    /\ \/ last.web3Provider = NoWeb3Provider
       \/ ~last.web3Provider._isProvider

\* C14: initializeWithWeb3Provider called with a missing provider or with one
\* whose _isProvider flag is falsy invokes every WalletInstalled listener
\* exactly once with installed = false and kind = Unknown and no other
\* listener, leaves the stored provider and the subscriptions on provider
\* events as they were, sends no request, leaves no getNetwork request whose
\* answer would emit ChainConnected, and leaves _initialized as it was, so
\* that initialize is not turned away afterwards because of this call.
C14_InitRefused ==
    [][/\ (InitRefused /\ ~_initialized /\ last'.op = "initialize") =>
             "guarded" \notin DOMAIN last'
       /\ InitRefused' =>
          /\ Len(calls') = Len(_listeners["WalletInstalled"])
          /\ \A i \in 1..Len(calls') :
                 calls'[i] = Call("WalletInstalled", _listeners["WalletInstalled"][i],
                                  [installed |-> FALSE, kind |-> Unknown])
          /\ provider' = provider
          /\ chainChangedSubs' = chainChangedSubs
          /\ accountsChangedSubs' = accountsChangedSubs
          /\ reqs' = <<>>
          /\ pending' = pending
          /\ _initialized' = _initialized]_vars

\* the bind revision has been handed an object that is no provider, told its
\* WalletInstalled listener so, and is still open to initialize
C14_Witness ==
    /\ InitRefused
    /\ last.web3Provider # NoWeb3Provider
    /\ variant = "bind"
    /\ ~_initialized
    /\ Len(calls) = 1

\* '0x' followed by chain id c in hexadecimal
HexChainId(c) ==
    CASE c = 1 -> <<"0", "x", "1">>
      [] c = 56 -> <<"0", "x", "3", "8">>
      [] c = 137 -> <<"0", "x", "8", "9">>

\* the last step was a call of switchNetwork
SwitchCalled == last.op = "switchNetwork" /\ "chainId" \in DOMAIN last

\* the last step was the answer to a request of switchNetwork
SwitchAnswered == last.op = "switchNetwork" /\ "answered" \in DOMAIN last

\* what switchNetwork does when the wallet answers one of its requests: after
\* a successful switch it resolves and sends nothing; after a failed switch
\* without add it resolves and sends nothing; after a failed switch with add
\* it sends one wallet_addEthereumChain request with add as its only
\* parameter and settles as that request does; nothing else sends a request of
\* switchNetwork, so none is sent twice
SwitchAnswers ==
    /\ (SwitchAnswered' /\ last'.answered = "wallet_switchEthereumChain" /\ last'.ok) =>
          /\ reqs' = <<>>
          /\ last'.outcome = "resolved"
          /\ Len(pending') = Len(pending) - 1
    /\ (SwitchAnswered' /\ last'.answered = "wallet_switchEthereumChain" /\ ~last'.ok
            /\ ~last'.addNetworkIfNotExists.given) =>
          /\ reqs' = <<>>
          /\ last'.outcome = "resolved"
          /\ Len(pending') = Len(pending) - 1
    /\ (SwitchAnswered' /\ last'.answered = "wallet_switchEthereumChain" /\ ~last'.ok
            /\ last'.addNetworkIfNotExists.given) =>
          /\ reqs' = <<[method |-> "wallet_addEthereumChain",
                        param |-> last'.addNetworkIfNotExists]>>
          /\ last'.outcome = "pending"
          /\ Len(pending') = Len(pending)
          /\ Cardinality(InFlight("addNetwork")') = Cardinality(InFlight("addNetwork")) + 1
          /\ Cardinality(InFlight("switchNetwork")') = Cardinality(InFlight("switchNetwork")) - 1
    /\ (SwitchAnswered' /\ last'.answered = "wallet_addEthereumChain") =>
          /\ reqs' = <<>>
          /\ last'.outcome = IF last'.ok THEN "resolved" ELSE "rejected"
          /\ Len(pending') = Len(pending) - 1
          /\ Cardinality(InFlight("addNetwork")') = Cardinality(InFlight("addNetwork")) - 1
    /\ (\E i \in 1..Len(reqs') : reqs'[i].method = "wallet_switchEthereumChain") => SwitchCalled'
    /\ (\E i \in 1..Len(reqs') : reqs'[i].method = "wallet_addEthereumChain") => SwitchAnswered'

\* C15 as claimed: switchNetwork(c, add) sends exactly one
\* wallet_switchEthereumChain request whose chainId is '0x' followed by c in
\* hexadecimal, whatever the state of the module, and then goes on as
\* SwitchAnswers says.
C15_SwitchNetworkAsClaimed ==
    [][/\ SwitchCalled' =>
             /\ reqs' = <<[method |-> "wallet_switchEthereumChain",
                           chainId |-> HexChainId(last'.chainId)]>>
             /\ last'.outcome = "pending"
       /\ SwitchAnswers]_vars

\* C15 amended: on a module that holds a provider switchNetwork(c, add) sends
\* exactly one wallet_switchEthereumChain request whose chainId is '0x'
\* followed by c in hexadecimal and waits for its answer, and then goes on as
\* SwitchAnswers says; on a module that was never initialized it sends no
\* request at all and resolves when add is omitted and rejects when add is
\* given.
C15_SwitchNetwork ==
    [][/\ (SwitchCalled' /\ _web3Provider # NoWeb3Provider) =>
             /\ reqs' = <<[method |-> "wallet_switchEthereumChain",
                           chainId |-> HexChainId(last'.chainId)]>>
             /\ last'.outcome = "pending"
             /\ pending' = Append(pending, [op |-> "switchNetwork",
                                            addNetworkIfNotExists |->
                                                last'.addNetworkIfNotExists])
       /\ (SwitchCalled' /\ _web3Provider = NoWeb3Provider) =>
             /\ reqs' = <<>>
             /\ pending' = pending
             /\ last'.outcome = IF last'.addNetworkIfNotExists.given
                                THEN "rejected" ELSE "resolved"
       /\ SwitchAnswers]_vars

\* the wallet has refused the switch to Polygon and switchNetwork has sent the
\* request to add the network
C15_Witness ==
    /\ SwitchAnswered
    /\ last.answered = "wallet_switchEthereumChain"
    /\ ~last.ok
    /\ reqs = <<[method |-> "wallet_addEthereumChain",
                 param |-> [given |-> TRUE, chainId |-> <<"0", "x", "8", "9">>]]>>
    /\ InFlight("addNetwork") # {}

\* C16 as claimed: switchNetwork sends wallet_addEthereumChain only when the
\* wallet_switchEthereumChain request before it failed because the wallet does
\* not know the chain (error 4902); a switch that fails for another reason,
\* such as the user rejecting it (error 4001), is followed by no request.
C16_AddsOnlyUnknownChainAsClaimed ==
    [][/\ (\E i \in 1..Len(reqs') : reqs'[i].method = "wallet_addEthereumChain") =>
             /\ SwitchAnswered'
             /\ last'.answered = "wallet_switchEthereumChain"
             /\ ~last'.ok
             /\ last'.code = 4902
       /\ (SwitchAnswered' /\ last'.answered = "wallet_switchEthereumChain"
               /\ ~last'.ok /\ last'.code # 4902) =>
             reqs' = <<>>]_vars

\* the last step was a call of an addOn*Listeners or bindOn*Listeners method
Registration == last.op \in {"addListener", "bindListener"}

\* C17: a listener registration method returns the module it was called on
\* and changes nothing but the registry entry of its own event: it invokes no
\* listener, sends no request, and leaves the stored provider, installed,
\* connected, address, the requests in flight, the provider subscriptions and
\* the registry entries of all other events as they were.
C17_RegistrationFrame ==
    [][Registration' =>
          /\ last'.outcome = "returned"
          /\ last'.value = "this"
          /\ calls' = <<>>
          /\ reqs' = <<>>
          /\ provider' = provider
          /\ installed' = installed
          /\ connected' = connected
          /\ _address' = _address
          /\ _initialized' = _initialized
          /\ pending' = pending
          /\ chainChangedSubs' = chainChangedSubs
          /\ accountsChangedSubs' = accountsChangedSubs
          /\ _listeners'[last'.event] # _listeners[last'.event]
          /\ \A e \in WalletModuleEvent \ {last'.event} : _listeners'[e] = _listeners[e]]_vars

\* a listener was registered on a connected module that holds listeners of
\* another event
C17_Witness ==
    /\ Registration
    /\ connected
    /\ installed
    /\ _address # Undefined
    /\ \E e \in WalletModuleEvent \ {last.event} : _listeners[e] # <<>>

\* C18: loadBalance() called while connected asks the stored provider for the
\* balance of the module's address and invokes nothing yet; when the provider
\* answers a loadBalance request, every BalanceChanged listener is invoked
\* exactly once with the balance of the answer, which is the answer to the
\* request for the address the module had at the call; BalanceChanged
\* listeners are invoked by no other step; and neither step changes the
\* stored provider, installed, connected, address or the registry.
C18_LoadBalance ==
    [][/\ (last'.op = "loadBalance" /\ Len(pending') > Len(pending) /\ connected) =>
             /\ reqs' = <<[method |-> "getBalance", provider |-> provider.provider,
                           address |-> _address]>>
             /\ pending' = Append(pending, [op |-> "loadBalance", address |-> _address])
             /\ calls' = <<>>
       /\ (last'.op = "loadBalance" /\ last'.outcome = "resolved") =>
             /\ Len(calls') = Len(_listeners["BalanceChanged"])
             /\ \A i \in 1..Len(calls') :
                    calls'[i] = Call("BalanceChanged", _listeners["BalanceChanged"][i],
                                     [balance |-> last'.balance])
             /\ \E i \in InFlight("loadBalance") :
                    /\ pending[i].address = last'.address
                    /\ pending' = Remove(pending, i)
             /\ reqs' = <<>>
       /\ (\E i \in 1..Len(calls') : calls'[i].event = "BalanceChanged") =>
             /\ last'.op = "loadBalance"
             /\ last'.outcome = "resolved"
       /\ last'.op = "loadBalance" =>
             /\ provider' = provider
             /\ installed' = installed
             /\ connected' = connected
             /\ _address' = _address
             /\ _listeners' = _listeners]_vars

\* the provider has answered the request of a loadBalance() for the address
\* of the connected module and two listeners were told the balance
C18_Witness ==
    /\ last.op = "loadBalance"
    /\ last.outcome = "resolved"
    /\ connected
    /\ last.address = _address
    /\ last.address \in Accounts
    /\ last.balance = 15
    /\ Len(calls) = 2

\* the WalletInstalled events the last step emitted
InstalledEmissions ==
    {i \in 1..Len(Emissions) : Emissions[i].event = "WalletInstalled"}

\* C19 as claimed: installed is false as long as no WalletInstalled event was
\* emitted, a step that emits WalletInstalled leaves installed equal to the
\* installed field its listeners were handed, and a step that emits none
\* leaves installed as it was; so installed always equals the installed field
\* of the WalletInstalled event emitted last.
C19_InstalledFollowsEventAsClaimed ==
    [][/\ last.op = "constructor" => ~installed
       /\ \A i \in 1..Len(calls') :
              calls'[i].event = "WalletInstalled" => installed' = calls'[i].param.installed
       /\ InstalledEmissions' = {} => installed' = installed]_vars

\* disconnect() ran as the last step while a connect() was awaiting the answer
\* to eth_requestAccounts
DisconnectedWhilePending == last.op = "disconnect" /\ InFlight("connect") # {}

\* C20 as claimed: when disconnect() was called while a connect() was awaiting
\* the provider's answer, connected is still false after that connect() has
\* completed, and it stays false until a connect() invoked after the
\* disconnect() succeeds.  Checked for the connect() that completes right
\* after the disconnect(): it was invoked before the disconnect(), so it must
\* leave connected false.
C20_DisconnectWinsAsClaimed ==
    [][(/\ DisconnectedWhilePending
        /\ last'.op = "connect"
        /\ Cardinality(InFlight("connect")') < Cardinality(InFlight("connect"))) =>
           ~connected']_vars

\* C21 as claimed: while connected, one accountsChanged event of the stored
\* provider invokes each registered AccountChanged listener exactly once,
\* however many connect() calls succeeded before.  Checked for the listeners
\* the event reaches at all: none of them is invoked more than once.
C21_OncePerEventAsClaimed ==
    [][(/\ last'.op = "accountsChanged"
        /\ last'.provider = _web3Provider.provider
        /\ connected) =>
           \A i \in 1..Len(_listeners["AccountChanged"]) :
               CallsOf(calls', _listeners["AccountChanged"][i]) # {} =>
                   Cardinality(CallsOf(calls', _listeners["AccountChanged"][i])) = 1]_vars

\* the events whose listeners the last step invoked
InvokedEvents == {calls[i].event : i \in 1..Len(calls)}

\* C22 as claimed: when the eth_requestAccounts request of a connect() call
\* completes, resolved or rejected, the call emits exactly one of
\* AccountChanged and AccountConnectCanceled.  Checked with a listener
\* registered for each of the two events: the step in which the call resumes
\* invokes the listeners of one of the events and not of the other.
C22_OneOutcomeEventAsClaimed ==
    [][(/\ last'.op = "connect"
        /\ Cardinality(InFlight("connect")') < Cardinality(InFlight("connect"))
        /\ _listeners["AccountChanged"] # <<>>
        /\ _listeners["AccountConnectCanceled"] # <<>>) =>
           \/ InvokedEvents' = {"AccountChanged"}
           \/ InvokedEvents' = {"AccountConnectCanceled"}]_vars

\* the provider the claim has initialize(MetaMask) wrap for the window of the
\* last step: the first entry of window.ethereum.providers with isMetaMask
\* when the list exists, window.ethereum itself when it does not; NoProvider
\* when there is nothing of the kind to wrap
ClaimedMetaMask ==
    IF last.window.ethereum.hasProviders
    THEN LET list == last.window.ethereum.providers
         IN IF \E i \in 1..Len(list) : isMetaMask(list[i])
            THEN list[CHOOSE i \in 1..Len(list) :
                         /\ isMetaMask(list[i])
                         /\ \A j \in 1..(i - 1) : ~isMetaMask(list[j])]
            ELSE NoProvider
    ELSE last.window.ethereum.self

\* the provider the last step wrapped and stored, NoProvider if it stored none
WrappedProvider ==
    IF last.outcome = "returned" /\ "web3Provider" \in DOMAIN last /\ last.success
    THEN last.web3Provider.provider
    ELSE NoProvider

\* the last step was initialize(WalletKind.MetaMask)
InitializeMetaMask == last.op = "initialize" /\ last.walletKind = MetaMask

\* what C23 says of an initialize(MetaMask) that goes through the selection
MetaMaskSelected ==
    IF ClaimedMetaMask = NoProvider
    THEN last.outcome = "threw"
    ELSE /\ WrappedProvider = ClaimedMetaMask
         /\ provider = Web3Provider(ClaimedMetaMask)

\* C23 as claimed: every initialize(WalletKind.MetaMask) wraps the first
\* entry of window.ethereum.providers whose isMetaMask flag is set when the
\* list exists, and throws when no entry has the flag; it wraps
\* window.ethereum itself when the list does not exist.
C23_MetaMaskSelectionAsClaimed ==
    [][InitializeMetaMask' => MetaMaskSelected']_vars

\* C23 amended: an initialize(WalletKind.MetaMask) that is not turned away by
\* the once-only guard of the bind revision selects as claimed; one that is
\* turned away selects nothing, throws nothing and leaves the stored provider
\* as it was.
C23_MetaMaskSelection ==
    [][InitializeMetaMask' =>
          IF variant = "bind" /\ _initialized
          THEN /\ last'.outcome = "returned"
               /\ WrappedProvider' = NoProvider
               /\ provider' = provider
          ELSE MetaMaskSelected']_vars

\* initialize(MetaMask) has wrapped the first of the two MetaMask entries of
\* a providers list that begins with another wallet
C23_Witness ==
    /\ InitializeMetaMask
    /\ last.window.ethereum.hasProviders
    /\ last.window.ethereum.providers = <<6, 3, 5>>
    /\ WrappedProvider = 3
    /\ provider = Web3Provider(3)

====
